---- MODULE Spec2Model ----
(***************************************************************************)
(* Model of the live event ingestion pipeline of wallet-tracker-fe:        *)
(*   - the three stream hooks of src/lib/hooks/useSSE.ts (useSSE,          *)
(*     useTransferStream, useCoordinatedStream);                           *)
(*   - the live page's feed buffer (app/(dashboard)/live/page.tsx);        *)
(*   - the dashboard's mini-feeds (the dashboard page component).          *)
(***************************************************************************)
EXTENDS Integers, Sequences, FiniteSets, TLC

(***************************************************************************)
(* Bounds of the model.                                                    *)
(***************************************************************************)
\* largest explicitly configured maxReconnectAttempts (0 stands for unset)
MaxOptAttempts == 2
\* capacities, scaled down from 500 / 50 / 20 (live/page.tsx:60, dashboard 23-24)
MAX_FEED_ITEMS == 3
MAX_LIVE_TRANSFERS == 2
MAX_LIVE_COORDINATED == 2
\* number of distinct non-empty transaction signatures
NumSignatures == 4
\* number of distinct token addresses and of distinct trigger instants
NumTokens == 2
NumInstants == 2
\* number of events handed to a feed since mount (live page: since the
\* last clear)
MaxArrivals == 4
\* number of values handed to an owner's callbacks since mount (live page:
\* since the last clear) in the delivery specification
MaxDelivered == 3
\* longest array carried by one frame
MaxFrameLen == 2
\* DEFAULT_OPTIONS.maxReconnectAttempts, scaled down from 10 (useSSE.ts:47)
DEFAULT_MAX_RECONNECT_ATTEMPTS == 3

HookKinds == {"all", "transfers", "coordinated"}

\* no effect run is in progress
Idle == [at |-> "idle", dirty |-> {}]

NoItem ==
    [type |-> "none", signature |-> 0, side |-> "NONE",
     tokenAddress |-> 0, triggeredAt |-> 0, timestamp |-> 0]

\* the entry the arrival history keeps for a clear of the dashboard feeds
ClearMarker ==
    [type |-> "clear", signature |-> 0, side |-> "NONE",
     tokenAddress |-> 0, triggeredAt |-> 0, timestamp |-> 0]

VARIABLES
    hooks,          \* per hook: status, eventSourceRef, timer ref, attempts
    opts,           \* per hook: the options the hook was given
    ut,             \* the hook the library-level specification exercises
    lastOp,         \* history: the operation that produced this state
    pre,            \* history: the exercised hook's record before lastOp
    streamType,     \* live page: selected stream kind
    phase,          \* live page: position in the commit of an effect run
    isPaused,       \* live page / dashboard: pause flag
    feedItems,      \* live page: the feed buffer
    recentTransfers,    \* dashboard: transfers mini-feed
    recentCoordinated,  \* dashboard: coordinated mini-feed
    seenCoordinated,    \* dashboard: dedup-key memory, in insertion order
    arrivals,       \* history: events handed to the feed since mount/clear
    lastFrom,       \* history: the hook whose connection carried the last frame
    consecErrors,   \* history: transport errors since the last open or call
    failures,       \* history: transport errors since mount
    page,           \* which owner of the hooks and buffers is exercised
    domain,         \* the events the stream may carry
    lastItem,       \* history: the event handed to the feed by lastOp
    soundEnabled,   \* live page: sound toggle
    stats,          \* dashboard: the live counters of the stats
    fx,             \* history: what the last step handed over and triggered
    client,         \* API client module: interceptor state and its requests
    walletsPage,    \* wallets page and config page: the forms' local state
    dataHook        \* a REST data hook: held data, flags and calls in flight

vars == <<hooks, opts, ut, lastOp, pre, streamType, phase, isPaused, feedItems,
          recentTransfers, recentCoordinated, seenCoordinated, arrivals, lastFrom,
          consecErrors, failures, page, domain, lastItem, soundEnabled, stats,
          fx, client, walletsPage, dataHook>>

liveVars == <<streamType, phase, feedItems>>
dashVars == <<recentTransfers, recentCoordinated, seenCoordinated>>
deliveryVars == <<soundEnabled, stats, fx>>
restVars == <<client, walletsPage, dataHook>>

\* the last step handed nothing to a callback and triggered nothing
NoFx ==
    [items |-> <<>>, dropped |-> 0, cues |-> 0, audio |-> "none", toasts |-> 0]

NoStats == [transferCount |-> 0, coordinatedCount |-> 0]

DeliveryRest ==
    /\ soundEnabled = FALSE
    /\ stats = NoStats
    /\ fx = NoFx

\* no REST request was made and no form was touched
NoRest == [used |-> FALSE]

RestIdle ==
    /\ client = NoRest
    /\ walletsPage = NoRest
    /\ dataHook = NoRest

(***************************************************************************)
(* A stream hook.                                                          *)
(*   es       : "null" when eventSourceRef.current is null, otherwise the  *)
(*              readyState of the EventSource the ref points to            *)
(*   orphan   : a live EventSource exists that the ref no longer points to *)
(*   timerRef : reconnectTimeoutRef.current holds a pending timeout        *)
(*   timers   : number of pending reconnect timeouts                       *)
(***************************************************************************)
NewHook ==
    [status |-> "disconnected", es |-> "null", orphan |-> FALSE,
     timerRef |-> FALSE, timers |-> 0, attempts |-> 0]

Live(es) == es \in {"connecting", "open"}

\* optsRef.current.maxReconnectAttempts || 10 (an unset option holds the
\* default, and 0 is falsy)
MaxAttempts(o) ==
    IF o.maxReconnectAttempts = 0 THEN DEFAULT_MAX_RECONNECT_ATTEMPTS
    ELSE o.maxReconnectAttempts

\* if (reconnectTimeoutRef.current) { clearTimeout(...); ref = null }
ClearReconnectTimeout(r) ==
    IF r.timerRef THEN [r EXCEPT !.timerRef = FALSE, !.timers = @ - 1] ELSE r

CloseExistingSkipped(r) == r

\* if (eventSourceRef.current) eventSourceRef.current.close()
CloseExisting(r) ==
    IF r.es # "null" THEN [r EXCEPT !.es = "closed"] ELSE r

\* eventSourceRef.current = new EventSource(url)
NewEventSource(r) ==
    [r EXCEPT !.orphan = @ \/ Live(r.es), !.es = "connecting"]

\* connect(): the same in the three hooks
Connect(k, r) ==
    [NewEventSource(CloseExisting(ClearReconnectTimeout(r)))
        EXCEPT !.status = "connecting"]

OnOpenKeepsAttempts(k, r) ==
    [r EXCEPT !.status = "connected", !.es = "open"]

\* eventSource.onopen
OnOpen(k, r) ==
    [r EXCEPT !.attempts = 0, !.status = "connected", !.es = "open"]

OnErrorNoIncrement(k, r, o) ==
    LET c == [r EXCEPT !.status = "error", !.es = "closed"] IN
    IF o.autoReconnect /\ c.attempts < MaxAttempts(o)
    THEN [c EXCEPT !.timerRef = TRUE, !.timers = @ + 1]
    ELSE IF k = "all"
         THEN IF c.attempts >= MaxAttempts(o)
              THEN [c EXCEPT !.status = "disconnected"] ELSE c
         ELSE [c EXCEPT !.status = "disconnected"]

\* eventSource.onerror: useSSE has "else if (attempts >= max)", the two
\* per-kind hooks a plain "else"
OnError(k, r, o) ==
    LET c == [r EXCEPT !.status = "error", !.es = "closed"] IN
    IF o.autoReconnect /\ c.attempts < MaxAttempts(o)
    THEN [c EXCEPT !.attempts = @ + 1, !.timerRef = TRUE, !.timers = @ + 1]
    ELSE IF k = "all"
         THEN IF c.attempts >= MaxAttempts(o)
              THEN [c EXCEPT !.status = "disconnected"] ELSE c
         ELSE [c EXCEPT !.status = "disconnected"]

DisconnectKeepsTimer(k, r) ==
    LET c == IF r.es # "null" THEN [r EXCEPT !.es = "null"] ELSE r IN
    [c EXCEPT !.status = "disconnected",
              !.attempts = IF k = "all" THEN 0 ELSE @]

DisconnectLeavesOpen(k, r) ==
    LET t == ClearReconnectTimeout(r) IN
    [t EXCEPT !.status = "disconnected",
              !.attempts = IF k = "all" THEN 0 ELSE @]

\* disconnect(): only useSSE resets reconnectAttempts
Disconnect(k, r) ==
    LET t == ClearReconnectTimeout(r)
        c == IF t.es # "null" THEN [t EXCEPT !.es = "null"] ELSE t IN
    [c EXCEPT !.status = "disconnected",
              !.attempts = IF k = "all" THEN 0 ELSE @]

\* the timeout set by onerror fires: setTimeout(connect, reconnectDelay).
\* The fired timeout is no longer pending, so connect's clearTimeout on the
\* ref is a no-op.
OnReconnectTimeout(k, r) ==
    Connect(k, [r EXCEPT !.timers = @ - 1, !.timerRef = FALSE])

StatusWritesSkipsError(op, k, r, o) ==
    IF op \in {"connect", "timer"} THEN <<"connecting">>
    ELSE IF op = "open" THEN <<"connected">>
    ELSE IF op = "disconnect" THEN <<"disconnected">>
    ELSE IF o.autoReconnect /\ r.attempts < MaxAttempts(o) THEN <<"error">>
    ELSE IF k = "all" /\ r.attempts < MaxAttempts(o) THEN <<"error">>
    ELSE <<"disconnected">>

\* the values a handler passes to setStatus / updateStatus, in order:
\* connect and the fired timeout write connecting, onopen connected,
\* disconnect disconnected, onerror error and then, on the branch that
\* gives up, disconnected
StatusWrites(op, k, r, o) ==
    IF op \in {"connect", "timer"} THEN <<"connecting">>
    ELSE IF op = "open" THEN <<"connected">>
    ELSE IF op = "disconnect" THEN <<"disconnected">>
    ELSE IF o.autoReconnect /\ r.attempts < MaxAttempts(o) THEN <<"error">>
    ELSE IF k = "all" /\ r.attempts < MaxAttempts(o) THEN <<"error">>
    ELSE <<"error", "disconnected">>

(***************************************************************************)
(* Library-level specification: one hook, its options drawn at             *)
(* construction, driven by its exposed operations and by the transport.    *)
(***************************************************************************)
OptionSets ==
    [autoReconnect : BOOLEAN, maxReconnectAttempts : 0..MaxOptAttempts]

IdleRest ==
    /\ streamType = "all"
    /\ phase = Idle
    /\ isPaused = FALSE
    /\ feedItems = <<>>
    /\ recentTransfers = <<>>
    /\ recentCoordinated = <<>>
    /\ seenCoordinated = <<>>
    /\ arrivals = <<>>
    /\ lastFrom = "none"
    /\ domain = {}
    /\ lastItem = NoItem
    /\ DeliveryRest

\* the history counter saturates one above the largest ceiling
ErrorsCap ==
    1 + (IF MaxOptAttempts > DEFAULT_MAX_RECONNECT_ATTEMPTS
         THEN MaxOptAttempts ELSE DEFAULT_MAX_RECONNECT_ATTEMPTS)

CountError(n) == IF n < ErrorsCap THEN n + 1 ELSE n

InitHook ==
    /\ ut \in HookKinds
    /\ hooks = [k \in HookKinds |-> NewHook]
    /\ \E o \in OptionSets : opts = [k \in HookKinds |-> o]
    /\ lastOp = "init"
    /\ pre = NewHook
    /\ consecErrors = 0
    /\ failures = 0
    /\ page = "hook"
    /\ IdleRest
    /\ RestIdle

Step(op, r) ==
    /\ hooks' = [hooks EXCEPT ![ut] = r]
    /\ lastOp' = op
    /\ pre' = hooks[ut]
    /\ consecErrors' = IF op = "error" THEN CountError(consecErrors)
                       ELSE IF op = "timer" THEN consecErrors ELSE 0
    /\ failures' = IF op = "error" THEN CountError(failures) ELSE failures
    /\ UNCHANGED <<opts, ut, liveVars, dashVars, isPaused, arrivals, lastFrom,
                   page, domain, lastItem, deliveryVars, restVars>>

\* connect() / reconnect() called by the owner
CallConnect == Step("connect", Connect(ut, hooks[ut]))

\* disconnect() called by the owner
CallDisconnect == Step("disconnect", Disconnect(ut, hooks[ut]))

TransportOpen ==
    /\ hooks[ut].es = "connecting"
    /\ Step("open", OnOpen(ut, hooks[ut]))

TransportError ==
    /\ Live(hooks[ut].es)
    /\ Step("error", OnError(ut, hooks[ut], opts[ut]))

ReconnectTimeout ==
    /\ hooks[ut].timers > 0
    /\ Step("timer", OnReconnectTimeout(ut, hooks[ut]))

NextHook ==
    \/ CallConnect
    \/ CallDisconnect
    \/ TransportOpen
    \/ TransportError
    \/ ReconnectTimeout

SpecHook == InitHook /\ [][NextHook]_vars

(***************************************************************************)
(* Events.  A field value 0 stands for a missing (undefined or empty)      *)
(* field.                                                                  *)
(***************************************************************************)
Sides == {"BUY", "SELL"}

Transfer(sig, side) ==
    [type |-> "transfer", signature |-> sig, side |-> side,
     tokenAddress |-> 0, triggeredAt |-> 0, timestamp |-> 0]

Coordinated(tok, trig) ==
    [type |-> "coordinated", signature |-> 0, side |-> "NONE",
     tokenAddress |-> tok, triggeredAt |-> trig, timestamp |-> 0]

Instants == 1..NumInstants

Range(q) == {q[i] : i \in 1..Len(q)}

Take(q, n) == SubSeq(q, 1, IF Len(q) < n THEN Len(q) ELSE n)

LastN(q, n) == SubSeq(q, IF Len(q) > n THEN Len(q) - n + 1 ELSE 1, Len(q))

Reverse(q) == [i \in 1..Len(q) |-> q[Len(q) + 1 - i]]

(***************************************************************************)
(* Live page: addFeedItem's state updater.                                 *)
(***************************************************************************)
\* `${tokenAddress}-${triggeredAt}`
LiveTradeKey(i) == <<i.tokenAddress, i.triggeredAt>>

AddFeedItemDedupsEmptySignature(prev, item) ==
    IF /\ item.type = "coordinated"
       /\ \E i \in Range(prev) :
            i.type = "coordinated" /\ LiveTradeKey(i) = LiveTradeKey(item)
    THEN prev
    ELSE IF /\ item.type = "transfer"
            /\ \E i \in Range(prev) :
                 i.type = "transfer" /\ i.signature = item.signature
         THEN prev
         ELSE Take(<<item>> \o prev, MAX_FEED_ITEMS)

AddFeedItemMovesToFront(prev, item) ==
    IF /\ item.type = "coordinated"
       /\ \E i \in Range(prev) :
            i.type = "coordinated" /\ LiveTradeKey(i) = LiveTradeKey(item)
    THEN prev
    ELSE Take(<<item>> \o SelectSeq(prev,
                LAMBDA i : ~(/\ item.type = "transfer" /\ item.signature # 0
                             /\ i.type = "transfer"
                             /\ i.signature = item.signature)),
              MAX_FEED_ITEMS)

AddFeedItemKeepsOldest(prev, item) ==
    IF /\ item.type = "coordinated"
       /\ \E i \in Range(prev) :
            i.type = "coordinated" /\ LiveTradeKey(i) = LiveTradeKey(item)
    THEN prev
    ELSE IF /\ item.type = "transfer" /\ item.signature # 0
            /\ \E i \in Range(prev) :
                 i.type = "transfer" /\ i.signature = item.signature
         THEN prev
         ELSE LastN(<<item>> \o prev, MAX_FEED_ITEMS)

AddFeedItem(prev, item) ==
    IF /\ item.type = "coordinated"
       /\ \E i \in Range(prev) :
            i.type = "coordinated" /\ LiveTradeKey(i) = LiveTradeKey(item)
    THEN prev
    ELSE IF /\ item.type = "transfer" /\ item.signature # 0
            /\ \E i \in Range(prev) :
                 i.type = "transfer" /\ i.signature = item.signature
         THEN prev
         ELSE Take(<<item>> \o prev, MAX_FEED_ITEMS)

(***************************************************************************)
(* Dashboard: handleTransfer and handleCoordinated.                        *)
(***************************************************************************)
\* the dedup-key memory is pruned to its newest 50 keys once it holds more
\* than 100; the model scales both with the coordinated capacity (20)
SEEN_KEEP == MAX_LIVE_COORDINATED
SEEN_LIMIT == 2 * SEEN_KEEP

\* trade.timestamp || trade.triggeredAt || new Date().toISOString()
GetTradeTimestamp(trade, now) ==
    IF trade.timestamp # 0 THEN trade.timestamp
    ELSE IF trade.triggeredAt # 0 THEN trade.triggeredAt ELSE now

\* setRecentTransfers((prev) => [data, ...prev.slice(0, MAX - 1)])
HandleTransfer(prev, data) ==
    <<data>> \o Take(prev, MAX_LIVE_TRANSFERS - 1)

HandleCoordinatedKeyedByToken(seen, prev, data, now) ==
    LET tradeKey == <<data.tokenAddress, 0>> IN
    IF tradeKey \in Range(seen) THEN [seen |-> seen, buf |-> prev]
    ELSE [seen |-> Append(seen, tradeKey),
          buf |-> <<data>> \o Take(prev, MAX_LIVE_COORDINATED - 1)]

HandleCoordinatedKeepsOldest(seen, prev, data, now) ==
    LET tradeKey == <<data.tokenAddress, GetTradeTimestamp(data, now)>>
        added == Append(seen, tradeKey)
        kept == IF Len(added) > SEEN_LIMIT THEN Take(added, SEEN_KEEP)
                ELSE added
    IN  IF tradeKey \in Range(seen) THEN [seen |-> seen, buf |-> prev]
        ELSE IF data.tokenAddress = 0 THEN [seen |-> kept, buf |-> prev]
        ELSE [seen |-> kept,
              buf |-> <<data>> \o Take(prev, MAX_LIVE_COORDINATED - 1)]

\* the toast reads data.tokenAddress.slice(0, 8): a trade without a token
\* address throws there, after the key was remembered and before the
\* mini-feed is updated
HandleCoordinated(seen, prev, data, now) ==
    LET tradeKey == <<data.tokenAddress, GetTradeTimestamp(data, now)>>
        added == Append(seen, tradeKey)
        kept == IF Len(added) > SEEN_LIMIT THEN LastN(added, SEEN_KEEP)
                ELSE added
    IN  IF tradeKey \in Range(seen) THEN [seen |-> seen, buf |-> prev]
        ELSE IF data.tokenAddress = 0 THEN [seen |-> kept, buf |-> prev]
        ELSE [seen |-> kept,
              buf |-> <<data>> \o Take(prev, MAX_LIVE_COORDINATED - 1)]

(***************************************************************************)
(* Feed-level specification: the event callbacks of the live page and of   *)
(* the dashboard, handed events drawn from a small domain.                 *)
(***************************************************************************)
\* trades of every token at the earliest and at the latest instant
CoordinatedEvents ==
    {Coordinated(t, i) : t \in 1..NumTokens, i \in {1, NumInstants}}

EventDomains ==
    { {Transfer(s, "BUY") : s \in 0..NumSignatures},
      {Transfer(s, d) : s \in 0..1, d \in Sides} \cup {Coordinated(1, 1)},
      CoordinatedEvents }

\* the arrival history
Record(h, item) == Append(h, item)

\* the history is full: no further event is handed to the feed
CanArrive == Len(arrivals) < MaxArrivals

\* new Date().toISOString() is only read for a trade without any instant
NowChoices(item) ==
    IF item.timestamp = 0 /\ item.triggeredAt = 0 THEN Instants ELSE {0}

InitFeed ==
    /\ page \in {"live", "dashboard"}
    /\ domain \in EventDomains
    /\ ut = "all"
    /\ hooks = [k \in HookKinds |-> NewHook]
    /\ opts = [k \in HookKinds |->
                 [autoReconnect |-> TRUE, maxReconnectAttempts |-> 0]]
    /\ lastOp = "init"
    /\ pre = NewHook
    /\ consecErrors = 0
    /\ failures = 0
    /\ streamType = "all"
    /\ phase = Idle
    /\ isPaused = FALSE
    /\ feedItems = <<>>
    /\ recentTransfers = <<>>
    /\ recentCoordinated = <<>>
    /\ seenCoordinated = <<>>
    /\ arrivals = <<>>
    /\ lastFrom = "none"
    /\ lastItem = NoItem
    /\ DeliveryRest
    /\ RestIdle

FeedFrame == <<hooks, opts, ut, pre, consecErrors, failures, streamType, phase,
               lastFrom, page, domain, deliveryVars, restVars>>

\* live page callbacks: if (!isPaused) addFeedItem(item)
LiveReceive ==
    /\ page = "live"
    /\ \E item \in domain :
        /\ IF isPaused
           THEN /\ lastOp' = "paused"
                /\ lastItem' = NoItem
                /\ UNCHANGED <<feedItems, arrivals>>
           ELSE /\ lastItem' = item
                /\ CanArrive
                /\ lastOp' = "add"
                /\ feedItems' = AddFeedItem(feedItems, item)
                /\ arrivals' = Record(arrivals, item)
    /\ UNCHANGED <<FeedFrame, isPaused, dashVars>>

\* dashboard onTransfer
DashReceiveTransfer ==
    /\ page = "dashboard"
    /\ \E item \in {e \in domain : e.type = "transfer"} :
        /\ IF isPaused
           THEN /\ lastOp' = "paused"
                /\ lastItem' = NoItem
                /\ UNCHANGED <<recentTransfers, arrivals>>
           ELSE /\ lastItem' = item
                /\ CanArrive
                /\ lastOp' = "add"
                /\ recentTransfers' = HandleTransfer(recentTransfers, item)
                /\ arrivals' = Record(arrivals, item)
    /\ UNCHANGED <<FeedFrame, isPaused, feedItems, recentCoordinated,
                   seenCoordinated>>

\* dashboard onCoordinated
DashReceiveCoordinated ==
    /\ page = "dashboard"
    /\ \E item \in {e \in domain : e.type = "coordinated"} :
      \E now \in NowChoices(item) :
        /\ IF isPaused
           THEN /\ lastOp' = "paused"
                /\ lastItem' = NoItem
                /\ UNCHANGED <<recentCoordinated, seenCoordinated, arrivals>>
           ELSE LET res == HandleCoordinated(seenCoordinated,
                                             recentCoordinated, item, now)
                IN  /\ lastItem' = item
                    /\ CanArrive
                    /\ lastOp' = "add"
                    /\ recentCoordinated' = res.buf
                    /\ seenCoordinated' = res.seen
                    /\ arrivals' = Record(arrivals, item)
    /\ UNCHANGED <<FeedFrame, isPaused, feedItems, recentTransfers>>

\* setIsPaused(!isPaused)
TogglePause ==
    /\ isPaused' = ~isPaused
    /\ lastOp' = "pause"
    /\ lastItem' = NoItem
    /\ UNCHANGED <<FeedFrame, feedItems, dashVars, arrivals>>

\* live page clearFeed (the button is disabled on an empty feed)
ClearFeed ==
    /\ page = "live"
    /\ feedItems # <<>>
    /\ feedItems' = <<>>
    /\ arrivals' = <<>>
    /\ lastOp' = "clear"
    /\ lastItem' = NoItem
    /\ UNCHANGED <<FeedFrame, isPaused, dashVars>>

\* dashboard handleClearLive: the dedup-key memory is left as it is, so the
\* arrival history is kept and records the clear
HandleClearLive ==
    /\ page = "dashboard"
    /\ CanArrive
    /\ recentTransfers' = <<>>
    /\ recentCoordinated' = <<>>
    /\ arrivals' = Record(arrivals, ClearMarker)
    /\ lastOp' = "clear"
    /\ lastItem' = NoItem
    /\ UNCHANGED <<FeedFrame, isPaused, feedItems, seenCoordinated>>

NextFeed ==
    \/ LiveReceive
    \/ DashReceiveTransfer
    \/ DashReceiveCoordinated
    \/ TogglePause
    \/ ClearFeed
    \/ HandleClearLive

SpecFeed == InitFeed /\ [][NextFeed]_vars

(***************************************************************************)
(* Frames.  A payload is text: "garbage" is not JSON, "blank" is the JSON  *)
(* object {} (valid JSON, no event field present), "array" a JSON array of *)
(* events and "object" one JSON event object.                              *)
(***************************************************************************)
BlankTransfer == Transfer(0, "NONE")

BlankCoordinated == Coordinated(0, 0)

Payload(kind, items) == [kind |-> kind, items |-> items]

\* the values the listener hands to its callback, in order; JSON.parse
\* throws on garbage, and for..of throws on a value that is not iterable,
\* both inside the listener's try block
Delivered(k, name, p) ==
    IF p.kind = "garbage" THEN <<>>
    ELSE IF k = "all" /\ name = "transfers"
         \* for (const data of arr) onTransfer(data)
         THEN IF p.kind = "array" THEN p.items ELSE <<>>
    ELSE IF k = "all" /\ name = "coordinated"
         \* onCoordinated(JSON.parse(e.data))
         THEN IF p.kind = "blank" THEN <<BlankCoordinated>>
              ELSE <<p.items[1]>>
    ELSE IF k = "transfers"
         \* Array.isArray(data) ? each : onTransfer(data)
         THEN IF p.kind = "blank" THEN <<BlankTransfer>> ELSE p.items
    ELSE \* useCoordinatedStream: onCoordinated(JSON.parse(e.data))
         IF p.kind = "blank" THEN <<BlankCoordinated>> ELSE <<p.items[1]>>

\* the live page's callbacks, applied to the delivered values in order
RECURSIVE AddAll(_, _)
AddAll(prev, items) ==
    IF items = <<>> THEN prev
    ELSE AddAll(AddFeedItem(prev, Head(items)), Tail(items))

SeqsUpTo(S, n) == UNION {[1..m -> S] : m \in 0..n}

\* the frames a connection of hook k may carry: <<event name, payload>>
FramesOf(k, D) ==
    LET T == {e \in D : e.type = "transfer"}
        C == {e \in D : e.type = "coordinated"}
        Bad == {Payload("garbage", <<>>), Payload("blank", <<>>)}
        Arr == {Payload("array", q) : q \in SeqsUpTo(T, MaxFrameLen)}
        ObjT == {Payload("object", <<e>>) : e \in T}
        ObjC == {Payload("object", <<e>>) : e \in C}
    IN  IF k = "all"
        THEN ({"transfers"} \X (Bad \cup Arr \cup ObjT))
                \cup ({"coordinated"} \X (Bad \cup ObjC))
        ELSE IF k = "transfers" THEN {"message"} \X (Bad \cup Arr \cup ObjT)
        ELSE {"message"} \X (Bad \cup ObjC)

(***************************************************************************)
(* Live page specification: the three hooks with enabled = (streamType =   *)
(* kind), the enabled effects, the transport and the feed.                 *)
(***************************************************************************)
LiveDomain ==
    {Transfer(1, "BUY"), Transfer(2, "BUY"), Coordinated(1, 1)}

InitLive ==
    /\ page = "live"
    /\ domain = LiveDomain
    /\ ut = "all"
    /\ hooks = [k \in HookKinds |-> NewHook]
    /\ opts = [k \in HookKinds |->
                 [autoReconnect |-> TRUE, maxReconnectAttempts |-> 0]]
    /\ lastOp = "init"
    /\ pre = NewHook
    /\ consecErrors = 0
    /\ failures = 0
    /\ streamType = "all"
    /\ phase = [at |-> "effects", dirty |-> HookKinds]
    /\ isPaused = FALSE
    /\ feedItems = <<>>
    /\ recentTransfers = <<>>
    /\ recentCoordinated = <<>>
    /\ seenCoordinated = <<>>
    /\ arrivals = <<>>
    /\ lastFrom = "none"
    /\ lastItem = NoItem
    /\ DeliveryRest
    /\ RestIdle

LiveFrame == <<opts, ut, consecErrors, failures, dashVars, arrivals,
               page, domain, lastItem, deliveryVars, restVars>>

EffectCleanupSkipped(k, r) == r

\* the cleanup of the enabled effect: return () => disconnect()
EffectCleanup(k, r) == Disconnect(k, r)

\* the enabled effect: if (opts.enabled) connect() else disconnect()
EnabledEffect(k, r, enabled) ==
    IF enabled THEN Connect(k, r) ELSE Disconnect(k, r)

DirtyEffectsOnCallbacks(oldType, newType, callbacksChanged) ==
    IF callbacksChanged THEN HookKinds
    ELSE {k \in HookKinds : (k = oldType) # (k = newType)}

\* the hooks whose enabled effect re-runs in a render: the effect's only
\* dependency is opts.enabled; the callbacks, new in every render, are read
\* through refs and are no dependency
DirtyEffects(oldType, newType, callbacksChanged) ==
    {k \in HookKinds : (k = oldType) # (k = newType)}

\* the next position of the commit: the effects run if any re-runs
AfterCleanup(dirty) ==
    IF dirty = {} THEN Idle ELSE [at |-> "effects", dirty |-> dirty]

\* setStreamType(v): the commit re-renders with the new selection and runs
\* the cleanups of the effects whose dependency (enabled) changed
SetStreamType ==
    /\ phase.at = "idle"
    /\ \E v \in HookKinds \ {streamType} :
        LET dirty == DirtyEffects(streamType, v, TRUE) IN
        /\ streamType' = v
        /\ hooks' = [k \in HookKinds |->
                        IF k \in dirty THEN EffectCleanup(k, hooks[k])
                        ELSE hooks[k]]
        /\ phase' = AfterCleanup(dirty)
    /\ lastOp' = "switch"
    /\ lastFrom' = "none"
    /\ UNCHANGED <<LiveFrame, pre, isPaused, feedItems>>

\* the same commit then runs the effects themselves
RunEffects ==
    /\ phase.at = "effects"
    /\ hooks' = [k \in HookKinds |->
                    IF k \in phase.dirty
                    THEN EnabledEffect(k, hooks[k], k = streamType)
                    ELSE hooks[k]]
    /\ phase' = Idle
    /\ lastOp' = "effects"
    /\ lastFrom' = "none"
    /\ UNCHANGED <<LiveFrame, pre, streamType, isPaused, feedItems>>

\* the transport's events and the timeouts do not depend on the owner being
\* mounted
LiveHookStep(k, op, r) ==
    /\ phase.at # "effects"
    /\ hooks' = [hooks EXCEPT ![k] = r]
    /\ lastOp' = op
    /\ lastFrom' = k
    /\ UNCHANGED <<LiveFrame, pre, streamType, phase, isPaused, feedItems>>

LiveOpen ==
    \E k \in HookKinds :
        /\ hooks[k].es = "connecting"
        /\ LiveHookStep(k, "open", OnOpen(k, hooks[k]))

LiveError ==
    \E k \in HookKinds :
        /\ Live(hooks[k].es)
        /\ LiveHookStep(k, "error", OnError(k, hooks[k], opts[k]))

LiveReconnectTimeout ==
    \E k \in HookKinds :
        /\ hooks[k].timers > 0
        /\ LiveHookStep(k, "timer", OnReconnectTimeout(k, hooks[k]))

\* a frame arrives on an open connection of hook k
LiveFrameArrives ==
    /\ phase.at # "effects"
    /\ \E k \in HookKinds :
        /\ hooks[k].es = "open" \/ hooks[k].orphan
        /\ \E f \in FramesOf(k, domain) :
            LET items == Delivered(k, f[1], f[2]) IN
            \* a state update of an unmounted component is dropped
            /\ feedItems' = IF isPaused \/ phase.at = "unmounted" THEN feedItems
                            ELSE AddAll(feedItems, items)
            /\ lastOp' = f[2].kind
            /\ lastFrom' = k
    /\ UNCHANGED <<LiveFrame, pre, hooks, streamType, phase, isPaused>>

\* a heartbeat frame of the combined stream only records its arrival time
LiveHeartbeat ==
    /\ phase.at # "effects"
    /\ hooks["all"].es = "open"
    /\ lastOp' = "heartbeat"
    /\ lastFrom' = "all"
    /\ UNCHANGED <<LiveFrame, pre, hooks, streamType, phase, isPaused, feedItems>>

\* setIsPaused(!isPaused): a re-render with the same selection
LiveTogglePause ==
    /\ phase.at = "idle"
    /\ isPaused' = ~isPaused
    /\ LET dirty == DirtyEffects(streamType, streamType, TRUE) IN
        /\ hooks' = [k \in HookKinds |->
                        IF k \in dirty THEN EffectCleanup(k, hooks[k])
                        ELSE hooks[k]]
        /\ phase' = AfterCleanup(dirty)
    /\ lastOp' = "pause"
    /\ lastFrom' = "none"
    /\ UNCHANGED <<LiveFrame, pre, streamType, feedItems>>

LiveClearFeed ==
    /\ phase.at = "idle"
    /\ feedItems # <<>>
    /\ feedItems' = <<>>
    /\ lastOp' = "clear"
    /\ lastFrom' = "none"
    /\ UNCHANGED <<LiveFrame, pre, hooks, streamType, phase, isPaused>>

\* the page unmounts: the cleanup of every hook's enabled effect runs. The
\* selected hook's record before the cleanup is kept as history.
Unmount ==
    /\ phase.at = "idle"
    /\ hooks' = [k \in HookKinds |-> EffectCleanup(k, hooks[k])]
    /\ phase' = [at |-> "unmounted", dirty |-> {}]
    /\ pre' = hooks[streamType]
    /\ lastOp' = "unmount"
    /\ lastFrom' = "none"
    /\ UNCHANGED <<LiveFrame, streamType, isPaused, feedItems>>

NextLive ==
    \/ Unmount
    \/ SetStreamType
    \/ RunEffects
    \/ LiveOpen
    \/ LiveError
    \/ LiveReconnectTimeout
    \/ LiveFrameArrives
    \/ LiveHeartbeat
    \/ LiveTogglePause
    \/ LiveClearFeed

SpecLive == InitLive /\ [][NextLive]_vars

(***************************************************************************)
(* Delivery specification: an owner (the live page with one of its three   *)
(* hooks selected, or the dashboard with the combined hook) whose          *)
(* connection is open; frames arrive and the hook hands their values to    *)
(* the owner's callbacks, which update buffers, counters and the dedup-key *)
(* memory and trigger sound cues and toasts.                               *)
(***************************************************************************)
CallbackPausedStale(now, atConnect) == atConnect

\* the isPaused value the invoked callback closes over: the hooks store the
\* callbacks of the latest render in a ref (callbacksRef.current = callbacks)
\* and the listeners call through the ref, so it is the current value, not
\* the one of the render that created the connection
CallbackPaused(now, atConnect) == now

PlayNotificationSoundUncaught(ok) == IF ok THEN "played" ELSE "threw"

\* playNotificationSound: the whole body is in try { } catch { }
PlayNotificationSound(ok) == IF ok THEN "played" ELSE "swallowed"

RECURSIVE DeliverLiveLastFirst(_, _, _, _)
DeliverLiveLastFirst(prev, items, sound, ok) ==
    IF items = <<>> THEN [buf |-> prev, cues |-> 0]
    ELSE LET n == Len(items)
             added == AddFeedItem(prev, items[n])
             rest == DeliverLiveLastFirst(added, SubSeq(items, 1, n - 1),
                                          sound, ok)
         IN  [buf |-> rest.buf, cues |-> rest.cues + IF sound THEN 1 ELSE 0]

\* the live page's callback called for each value in order: addFeedItem
\* updates the buffer, then plays the cue if sound is enabled. An exception
\* leaving the callback would end the listener's loop.
RECURSIVE DeliverLive(_, _, _, _)
DeliverLive(prev, items, sound, ok) ==
    IF items = <<>> THEN [buf |-> prev, cues |-> 0]
    ELSE LET added == AddFeedItem(prev, Head(items))
             outcome == IF sound THEN PlayNotificationSound(ok) ELSE "none"
         IN  IF outcome = "threw" THEN [buf |-> added, cues |-> 1]
             ELSE LET rest == DeliverLive(added, Tail(items), sound, ok)
                  IN  [buf |-> rest.buf,
                       cues |-> rest.cues + IF sound THEN 1 ELSE 0]

\* handleCoordinated: 1 when the toast is shown and coordinatedCount
\* incremented, 0 for a duplicate and for a trade on which the toast's
\* description throws
CoordinatedShown(seen, data, now) ==
    LET tradeKey == <<data.tokenAddress, GetTradeTimestamp(data, now)>> IN
    IF tradeKey \in Range(seen) \/ data.tokenAddress = 0 THEN 0 ELSE 1

\* the dashboard's callbacks called for each value in order
RECURSIVE DeliverDash(_, _, _)
DeliverDash(st, items, now) ==
    IF items = <<>> THEN st
    ELSE LET d == Head(items)
             res == HandleCoordinated(st.seen, st.coordinated, d, now)
             n == CoordinatedShown(st.seen, d, now)
             nxt == IF d.type = "transfer"
                    THEN [st EXCEPT
                            !.transfers = HandleTransfer(@, d),
                            !.stats.transferCount = @ + 1]
                    ELSE [st EXCEPT
                            !.seen = res.seen,
                            !.coordinated = res.buf,
                            !.stats.coordinatedCount = @ + n,
                            !.toasts = @ + n]
         IN  DeliverDash(nxt, Tail(items), now)

InitDelivery ==
    /\ page \in {"live", "dashboard"}
    /\ ut \in HookKinds
    /\ page = "dashboard" => ut = "all"
    /\ streamType = ut
    /\ hooks = [k \in HookKinds |->
                  IF k = ut THEN OnOpen(k, Connect(k, NewHook)) ELSE NewHook]
    /\ opts = [k \in HookKinds |->
                 [autoReconnect |-> TRUE, maxReconnectAttempts |-> 0]]
    /\ domain = LiveDomain
    /\ lastOp = "init"
    /\ pre = NewHook
    /\ consecErrors = 0
    /\ failures = 0
    /\ phase = Idle
    /\ isPaused = FALSE
    /\ feedItems = <<>>
    /\ recentTransfers = <<>>
    /\ recentCoordinated = <<>>
    /\ seenCoordinated = <<>>
    /\ arrivals = <<>>
    /\ lastFrom = "none"
    /\ lastItem = NoItem
    /\ DeliveryRest
    /\ RestIdle

DeliveryFrame == <<opts, ut, pre, consecErrors, failures, streamType, phase,
                   lastFrom, page, domain, lastItem, restVars>>

\* a frame arrives on the open connection
DeliverFrame ==
    /\ hooks[ut].es = "open"
    /\ \E f \in FramesOf(ut, domain) :
        LET items == Delivered(ut, f[1], f[2]) IN
        /\ lastOp' = "frame"
        /\ IF CallbackPaused(isPaused, FALSE)
           \* the callback returns at once: only the number of values is kept
           THEN /\ fx' = [NoFx EXCEPT !.dropped = Len(items)]
                /\ UNCHANGED <<feedItems, dashVars, stats, arrivals>>
           ELSE /\ Len(arrivals) + Len(items) <= MaxDelivered
                /\ arrivals' = arrivals \o items
                /\ IF page = "live"
                   THEN /\ \E ok \in (IF soundEnabled /\ items # <<>>
                                     THEN BOOLEAN ELSE {TRUE}) :
                            LET r == DeliverLive(feedItems, items,
                                                 soundEnabled, ok)
                            IN  /\ feedItems' = r.buf
                                /\ fx' = [items |-> items, dropped |-> 0,
                                          cues |-> r.cues,
                                          audio |-> IF r.cues = 0 THEN "none"
                                                    ELSE IF ok THEN "played"
                                                    ELSE "failed",
                                          toasts |-> 0]
                        /\ UNCHANGED <<dashVars, stats>>
                   ELSE /\ \E now \in (IF items = <<>> THEN {0}
                                      ELSE NowChoices(items[1])) :
                            LET st == DeliverDash(
                                        [transfers |-> recentTransfers,
                                         coordinated |-> recentCoordinated,
                                         seen |-> seenCoordinated,
                                         stats |-> stats, toasts |-> 0],
                                        items, now)
                            IN  /\ recentTransfers' = st.transfers
                                /\ recentCoordinated' = st.coordinated
                                /\ seenCoordinated' = st.seen
                                /\ stats' = st.stats
                                /\ fx' = [items |-> items, dropped |-> 0,
                                          cues |-> 0, audio |-> "none",
                                          toasts |-> st.toasts]
                        /\ UNCHANGED feedItems
    /\ UNCHANGED <<DeliveryFrame, hooks, isPaused, soundEnabled>>

\* a re-render of the owner with the same selection: the effects that
\* re-run are cleaned up and run again in the same commit
Rerender ==
    LET dirty == DirtyEffects(streamType, streamType, TRUE) IN
    hooks' = [k \in HookKinds |->
                IF k \in dirty
                THEN EnabledEffect(k, EffectCleanup(k, hooks[k]), k = ut)
                ELSE hooks[k]]

\* setIsPaused(!isPaused)
DeliveryTogglePause ==
    /\ isPaused' = ~isPaused
    /\ Rerender
    /\ lastOp' = "pause"
    /\ fx' = NoFx
    /\ UNCHANGED <<DeliveryFrame, feedItems, dashVars, soundEnabled, stats,
                   arrivals>>

\* setSoundEnabled(!soundEnabled), live page only
ToggleSound ==
    /\ page = "live"
    /\ soundEnabled' = ~soundEnabled
    /\ Rerender
    /\ lastOp' = "sound"
    /\ fx' = NoFx
    /\ UNCHANGED <<DeliveryFrame, feedItems, dashVars, isPaused, stats,
                   arrivals>>

\* clearFeed / handleClearLive, each with its toast; the dashboard's dedup-key
\* memory and counters are kept, and so is its history
DeliveryClear ==
    /\ IF page = "live"
       THEN /\ feedItems # <<>>
            /\ feedItems' = <<>>
            /\ arrivals' = <<>>
            /\ UNCHANGED dashVars
       ELSE /\ recentTransfers # <<>> \/ recentCoordinated # <<>>
            /\ recentTransfers' = <<>>
            /\ recentCoordinated' = <<>>
            /\ UNCHANGED <<feedItems, seenCoordinated, arrivals>>
    /\ Rerender
    /\ lastOp' = "clear"
    /\ fx' = [NoFx EXCEPT !.toasts = 1]
    /\ UNCHANGED <<DeliveryFrame, isPaused, soundEnabled, stats>>

NextDelivery ==
    \/ DeliverFrame
    \/ DeliveryTogglePause
    \/ ToggleSound
    \/ DeliveryClear

SpecDelivery == InitDelivery /\ [][NextDelivery]_vars

(***************************************************************************)
(* Dedup-key memory specification: the dashboard, not paused, handed       *)
(* coordinated trades with more distinct keys than the memory's limit,     *)
(* two of them trades whose payload carries no token address.  The number  *)
(* of admitted trades (coordinatedCount) is capped one above the limit.    *)
(***************************************************************************)
SeenDomain ==
    {Coordinated(t, 1) : t \in 1..(SEEN_LIMIT - 1)}
        \cup {Coordinated(0, 1), Coordinated(0, 2)}

InitSeen ==
    /\ page = "dashboard"
    /\ domain = SeenDomain
    /\ ut = "all"
    /\ streamType = "all"
    /\ hooks = [k \in HookKinds |->
                  IF k = "all" THEN OnOpen(k, Connect(k, NewHook)) ELSE NewHook]
    /\ opts = [k \in HookKinds |->
                 [autoReconnect |-> TRUE, maxReconnectAttempts |-> 0]]
    /\ lastOp = "init"
    /\ pre = NewHook
    /\ consecErrors = 0
    /\ failures = 0
    /\ phase = Idle
    /\ isPaused = FALSE
    /\ feedItems = <<>>
    /\ recentTransfers = <<>>
    /\ recentCoordinated = <<>>
    /\ seenCoordinated = <<>>
    /\ arrivals = <<>>
    /\ lastFrom = "none"
    /\ lastItem = NoItem
    /\ DeliveryRest
    /\ RestIdle

SeenFrame == <<hooks, opts, ut, pre, consecErrors, failures, streamType, phase,
               isPaused, feedItems, recentTransfers, arrivals, lastFrom, page,
               domain, soundEnabled, restVars>>

\* handleCoordinated called with a trade
SeenReceive ==
    /\ \E item \in domain :
        LET res == HandleCoordinated(seenCoordinated, recentCoordinated,
                                     item, 0)
            n == CoordinatedShown(seenCoordinated, item, 0)
        IN  /\ stats.coordinatedCount + n <= SEEN_LIMIT + 1
            /\ seenCoordinated' = res.seen
            /\ recentCoordinated' = res.buf
            /\ stats' = [stats EXCEPT !.coordinatedCount = @ + n]
            /\ fx' = [NoFx EXCEPT !.items = <<item>>, !.toasts = n]
            /\ lastItem' = item
    /\ lastOp' = "add"
    /\ UNCHANGED SeenFrame

\* handleClearLive
SeenClear ==
    /\ recentCoordinated # <<>>
    /\ recentCoordinated' = <<>>
    /\ fx' = [NoFx EXCEPT !.toasts = 1]
    /\ lastItem' = NoItem
    /\ lastOp' = "clear"
    /\ UNCHANGED <<SeenFrame, seenCoordinated, stats>>

NextSeen ==
    \/ SeenReceive
    \/ SeenClear

SpecSeen == InitSeen /\ [][NextSeen]_vars

(***************************************************************************)
(* C1: with auto-reconnect enabled, a transport error below the ceiling    *)
(* sets status error, closes the connection, increments the counter and    *)
(* leaves exactly one reconnect timeout pending; the timeout firing sets   *)
(* status connecting; a transport error at the ceiling sets status         *)
(* disconnected with no timeout pending (so no automatic connect follows); *)
(* ceiling + 1 consecutive errors without an open end in disconnected.     *)
(***************************************************************************)
C1_ReconnectUntilCeiling ==
    /\ (lastOp = "error" /\ opts[ut].autoReconnect
            /\ pre.attempts < MaxAttempts(opts[ut]))
        => /\ hooks[ut].status = "error"
           /\ hooks[ut].es = "closed"
           /\ ~hooks[ut].orphan
           /\ hooks[ut].attempts = pre.attempts + 1
           /\ hooks[ut].timers = 1
           /\ hooks[ut].timerRef
    /\ lastOp = "timer"
        => /\ hooks[ut].status = "connecting"
           /\ hooks[ut].es = "connecting"
           /\ hooks[ut].timers = 0
    /\ (lastOp = "error" /\ opts[ut].autoReconnect
            /\ pre.attempts >= MaxAttempts(opts[ut]))
        => /\ hooks[ut].status = "disconnected"
           /\ hooks[ut].es = "closed"
           /\ hooks[ut].timers = 0
           /\ ~hooks[ut].timerRef
           /\ ~ENABLED ReconnectTimeout
    /\ (lastOp = "error" /\ opts[ut].autoReconnect
            /\ consecErrors = MaxAttempts(opts[ut]) + 1)
        => /\ hooks[ut].status = "disconnected"
           /\ hooks[ut].timers = 0

\* max = 2, the third consecutive transport error
C1_Witness ==
    /\ lastOp = "error"
    /\ opts[ut].autoReconnect
    /\ opts[ut].maxReconnectAttempts = 2
    /\ consecErrors = 3
    /\ pre.status = "connecting"
    /\ hooks[ut].status = "disconnected"

(***************************************************************************)
(* Dedup keys as the claims name them: a transfer's signature, a           *)
(* coordinated trade's (token address, trigger instant) pair.              *)
(***************************************************************************)
DedupKey(e) ==
    IF e.type = "transfer" THEN <<"signature", e.signature, 0>>
    ELSE <<"trade", e.tokenAddress, e.triggeredAt>>

HasDedupKey(e) ==
    \/ e.type = "transfer" /\ e.signature # 0
    \/ e.type = "coordinated"

DistinctKeys(h) ==
    /\ \A i \in 1..Len(h) : HasDedupKey(h[i])
    /\ \A i, j \in 1..Len(h) : i < j => DedupKey(h[i]) # DedupKey(h[j])

OfType(h, t) == SelectSeq(h, LAMBDA e : e.type = t)

SameTrade(a, b) ==
    /\ a.type = "coordinated"
    /\ b.type = "coordinated"
    /\ DedupKey(a) = DedupKey(b)

(***************************************************************************)
(* C2: after any sequence of events with pairwise distinct dedup keys      *)
(* handed to an unpaused feed, each buffer holds the newest min(N, count)  *)
(* of its events, most recent first (N = MAX_FEED_ITEMS for the live       *)
(* feed, MAX_LIVE_TRANSFERS and MAX_LIVE_COORDINATED for the dashboard).   *)
(***************************************************************************)
C2_NewestFirstBounded ==
    DistinctKeys(arrivals)
    => /\ page = "live"
          => feedItems = Take(Reverse(arrivals), MAX_FEED_ITEMS)
       /\ page = "dashboard"
          => /\ recentTransfers =
                  Take(Reverse(OfType(arrivals, "transfer")),
                       MAX_LIVE_TRANSFERS)
             /\ recentCoordinated =
                  Take(Reverse(OfType(arrivals, "coordinated")),
                       MAX_LIVE_COORDINATED)

\* capacity 3, signatures S1, S2, S3, S4 in order: S1 is gone
C2_Witness ==
    /\ page = "live"
    /\ arrivals = <<Transfer(1, "BUY"), Transfer(2, "BUY"),
                    Transfer(3, "BUY"), Transfer(4, "BUY")>>
    /\ feedItems = <<Transfer(4, "BUY"), Transfer(3, "BUY"),
                     Transfer(2, "BUY")>>

(***************************************************************************)
(* C3: on the live page, handing the feed a transfer whose non-empty       *)
(* signature is the signature of a buffered transfer leaves the buffer     *)
(* exactly as it was.                                                      *)
(***************************************************************************)
C3_DuplicateSignatureNoOp ==
    [][ ( /\ page = "live"
          /\ lastOp' = "add"
          /\ lastItem'.type = "transfer"
          /\ lastItem'.signature # 0
          /\ \E i \in Range(feedItems) :
                i.type = "transfer" /\ i.signature = lastItem'.signature )
        => feedItems' = feedItems ]_vars

\* the duplicate differs from the buffered entry in another field, and the
\* buffered entry is not at the front
C3_Witness ==
    /\ page = "live"
    /\ lastOp = "add"
    /\ lastItem.type = "transfer"
    /\ lastItem.signature # 0
    /\ lastItem \notin Range(feedItems)
    /\ Len(feedItems) >= 2
    /\ feedItems[1].signature # lastItem.signature
    /\ \E i \in 2..Len(feedItems) :
          /\ feedItems[i].type = "transfer"
          /\ feedItems[i].signature = lastItem.signature

C5_NoSignatureAlwaysAdmitted ==
    [][ ( /\ page = "live"
          /\ lastOp' = "add"
          /\ lastItem'.type = "transfer"
          /\ lastItem'.signature = 0 )
        => feedItems' = Take(<<lastItem'>> \o feedItems, MAX_FEED_ITEMS) ]_vars

\* an identical signature-less event was already buffered
C5_Witness ==
    /\ page = "live"
    /\ lastOp = "add"
    /\ lastItem.type = "transfer"
    /\ lastItem.signature = 0
    /\ Len(feedItems) >= 2
    /\ feedItems[1] = lastItem
    /\ feedItems[2] = lastItem

(***************************************************************************)
(* C6: after disconnect(), from whatever state, the status is              *)
(* disconnected, the hook holds no connection and no reconnect timeout is  *)
(* pending; a second disconnect() changes nothing.                         *)
(***************************************************************************)
C6_DisconnectIdempotent ==
    lastOp = "disconnect"
    => /\ hooks[ut].status = "disconnected"
       /\ hooks[ut].es = "null"
       /\ ~hooks[ut].orphan
       /\ hooks[ut].timers = 0
       /\ ~hooks[ut].timerRef
       /\ Disconnect(ut, hooks[ut]) = hooks[ut]

\* disconnect() called while a reconnect timeout was pending
C6_Witness ==
    /\ lastOp = "disconnect"
    /\ pre.status = "error"
    /\ pre.timers = 1
    /\ hooks[ut].status = "disconnected"

(***************************************************************************)
(* C7: a frame whose payload is not a well-formed event of the expected    *)
(* shape (text that is not JSON, or JSON that is no event) changes no feed *)
(* buffer and leaves every hook, its connection and its timers as they     *)
(* were.                                                                   *)
(***************************************************************************)
C7_MalformedFrameDropped ==
    [][ lastOp' \in {"garbage", "blank"}
        => /\ feedItems' = feedItems
           /\ hooks' = hooks ]_vars

(***************************************************************************)
(* C8: on the live page only the hook of the selected stream kind ever     *)
(* holds a live connection or a pending reconnect timeout; when the        *)
(* selection changes, the old hook's connection is closed and its timeout  *)
(* cancelled before the new hook connects; the feed only changes on frames *)
(* carried by the selected kind's connection.                              *)
(***************************************************************************)
C8_OnlySelectedStreamActive ==
    /\ [](\A k \in HookKinds :
            (Live(hooks[k].es) \/ hooks[k].orphan \/ hooks[k].timers > 0
                \/ hooks[k].timerRef)
            => k = streamType)
    /\ [](lastOp = "switch"
            => \A k \in HookKinds :
                  /\ ~Live(hooks[k].es)
                  /\ ~hooks[k].orphan
                  /\ hooks[k].timers = 0)
    /\ [][ (lastOp' \in {"garbage", "blank", "array", "object"}
              /\ feedItems' # feedItems)
           => lastFrom' = streamType' ]_vars

\* the selection just moved away from the transfers stream, which had
\* failed at least once and had delivered events
C8_Witness ==
    /\ lastOp = "switch"
    /\ streamType # "transfers"
    /\ hooks["transfers"].attempts > 0
    /\ hooks["transfers"].es = "null"
    /\ feedItems # <<>>

(***************************************************************************)
(* C9: a connection error with auto-reconnect disabled ends with status    *)
(* disconnected, the connection closed and no reconnect timeout pending.   *)
(***************************************************************************)
C9_ErrorWithoutAutoReconnect ==
    (lastOp = "error" /\ ~opts[ut].autoReconnect)
    => /\ hooks[ut].status = "disconnected"
       /\ hooks[ut].es = "closed"
       /\ hooks[ut].timers = 0

(***************************************************************************)
(* C10: reconnect() on the combined hook resets the attempt counter to 0   *)
(* and starts a connection attempt at once, with no timeout left pending.  *)
(***************************************************************************)
C10_ReconnectResetsCounter ==
    (lastOp = "connect" /\ ut = "all")
    => /\ hooks[ut].attempts = 0
       /\ hooks[ut].status = "connecting"
       /\ hooks[ut].es = "connecting"
       /\ hooks[ut].timers = 0

(***************************************************************************)
(* C11: disconnect() leaves the reconnect-attempt counter at 0 in each of  *)
(* the three hooks.                                                        *)
(***************************************************************************)
C11_DisconnectResetsCounter ==
    lastOp = "disconnect" => hooks[ut].attempts = 0

(***************************************************************************)
(* C12: a successful open sets status connected and the attempt counter to *)
(* 0; a transport error on a connection that had opened is therefore       *)
(* always below the ceiling: with auto-reconnect enabled it schedules a    *)
(* reconnect (status error, counter 1, one timeout pending) and never ends *)
(* in disconnected, however many errors came before.                       *)
(***************************************************************************)
C12_OpenResetsCounter ==
    /\ lastOp = "open"
        => /\ hooks[ut].status = "connected"
           /\ hooks[ut].attempts = 0
    /\ (lastOp = "error" /\ opts[ut].autoReconnect /\ pre.status = "connected")
        => /\ hooks[ut].status = "error"
           /\ hooks[ut].attempts = 1
           /\ hooks[ut].timers = 1
           /\ hooks[ut].timerRef

\* ceiling 1, the third transport error of a hook whose disconnect() does
\* not touch the counter: still retried
C12_Witness ==
    /\ lastOp = "error"
    /\ ut = "transfers"
    /\ opts[ut].autoReconnect
    /\ opts[ut].maxReconnectAttempts = 1
    /\ failures >= 3
    /\ pre.status = "connected"
    /\ hooks[ut].status = "error"
    /\ hooks[ut].timers = 1

(***************************************************************************)
(* C13 as stated: every change of a hook's status is disconnected ->       *)
(* connecting, connecting -> connected, connected -> error, error ->       *)
(* connecting, error -> disconnected, or any status -> disconnected by     *)
(* disconnect().                                                           *)
(***************************************************************************)
SpecifiedTransitions ==
    { <<"disconnected", "connecting">>, <<"connecting", "connected">>,
      <<"connected", "error">>, <<"error", "connecting">>,
      <<"error", "disconnected">> }

\* the statuses the hook passes through in the step: the status before it
\* followed by the handler's writes
StatusPath == <<hooks[ut].status>> \o StatusWrites(lastOp', ut, hooks[ut], opts[ut])

C13_OnlySpecifiedTransitions ==
    [][ \A i \in 1..(Len(StatusPath) - 1) :
          \/ StatusPath[i] = StatusPath[i + 1]
          \/ <<StatusPath[i], StatusPath[i + 1]>> \in SpecifiedTransitions
          \/ lastOp' = "disconnect" /\ StatusPath[i + 1] = "disconnected" ]_vars

(***************************************************************************)
(* C13 amended: every change of a hook's status is one of the transitions  *)
(* above, or connecting -> error (a transport error before the connection  *)
(* opened), or connected -> connecting by a call of connect()/reconnect(); *)
(* the status after a step is the last one written.                        *)
(***************************************************************************)
C13_TransitionsAmended ==
    [][ /\ StatusPath[Len(StatusPath)] = hooks'[ut].status
        /\ \A i \in 1..(Len(StatusPath) - 1) :
              \/ StatusPath[i] = StatusPath[i + 1]
              \/ <<StatusPath[i], StatusPath[i + 1]>> \in SpecifiedTransitions
              \/ lastOp' = "disconnect" /\ StatusPath[i + 1] = "disconnected"
              \/ /\ lastOp' = "error"
                 /\ <<StatusPath[i], StatusPath[i + 1]>> = <<"connecting", "error">>
              \/ /\ lastOp' = "connect"
                 /\ <<StatusPath[i], StatusPath[i + 1]>> = <<"connected", "connecting">>
      ]_vars

\* a connection attempt failed before opening, with the retries exhausted:
\* connecting -> error -> disconnected
C13_Witness ==
    /\ lastOp = "error"
    /\ pre.status = "connecting"
    /\ pre.attempts = MaxAttempts(opts[ut])
    /\ hooks[ut].status = "disconnected"

(***************************************************************************)
(* C14: in the dashboard's transfers mini-feed no two buffered transfers   *)
(* have the same non-empty signature.                                      *)
(***************************************************************************)
C14_DashboardTransfersUnique ==
    page = "dashboard"
    => \A i, j \in 1..Len(recentTransfers) :
          (i < j /\ recentTransfers[i].signature # 0)
          => recentTransfers[i].signature # recentTransfers[j].signature

(***************************************************************************)
(* C15: once the live page has unmounted, whatever state its hooks were    *)
(* in, no hook holds a connection or a pending reconnect timeout, and no   *)
(* hook changes afterwards (no connection attempt is started).             *)
(***************************************************************************)
C15_NothingOutlivesUnmount ==
    /\ [](phase.at = "unmounted"
            => \A k \in HookKinds :
                  /\ hooks[k].es = "null"
                  /\ ~hooks[k].orphan
                  /\ hooks[k].timers = 0
                  /\ ~hooks[k].timerRef
                  /\ hooks[k].status = "disconnected")
    /\ [][phase.at = "unmounted" => hooks' = hooks]_vars

\* unmounted while the selected hook waited for its reconnect timeout
C15_Witness ==
    /\ phase.at = "unmounted"
    /\ pre.status = "error"
    /\ pre.timers = 1
    /\ hooks[streamType].timers = 0
    /\ hooks[streamType].es = "null"

(***************************************************************************)
(* C16: the values of an array frame are handed to the callback in array   *)
(* order and the frames in arrival order: when the events handed to the    *)
(* unpaused live feed since mount or clear have pairwise distinct keys,    *)
(* the buffer is their delivery order reversed (the last event of the last *)
(* frame first), trimmed to capacity.                                      *)
(***************************************************************************)
C16_ArrayAndFrameOrder ==
    (page = "live" /\ DistinctKeys(arrivals))
    => feedItems = Take(Reverse(arrivals), MAX_FEED_ITEMS)

\* F1 = C1 then F2 = [T1, T2] on the combined stream
C16_Witness ==
    /\ page = "live"
    /\ ut = "all"
    /\ lastOp = "frame"
    /\ fx.items = <<Transfer(1, "BUY"), Transfer(2, "BUY")>>
    /\ arrivals = <<Coordinated(1, 1), Transfer(1, "BUY"), Transfer(2, "BUY")>>
    /\ feedItems = <<Transfer(2, "BUY"), Transfer(1, "BUY"), Coordinated(1, 1)>>

(***************************************************************************)
(* C17: while the owner is paused, a frame arriving on the open connection *)
(* leaves the buffers, the counters and the dedup-key memory unchanged,    *)
(* triggers no sound cue and no toast and leaves the hooks as they were;   *)
(* while it is not paused, a frame's events, and only they, are admitted;  *)
(* pausing and resuming change no buffer and no hook.                      *)
(***************************************************************************)
C17_PauseDiscardsEvents ==
    /\ [][ (isPaused /\ lastOp' = "frame")
           => /\ feedItems' = feedItems
              /\ dashVars' = dashVars
              /\ stats' = stats
              /\ fx'.cues = 0
              /\ fx'.toasts = 0
              /\ hooks' = hooks ]_vars
    /\ [][ (~isPaused /\ lastOp' = "frame")
           => /\ page = "live"
                 => feedItems' = AddAll(feedItems, fx'.items)
              /\ page = "dashboard"
                 => recentTransfers' =
                      Take(Reverse(OfType(fx'.items, "transfer"))
                              \o recentTransfers, MAX_LIVE_TRANSFERS) ]_vars
    /\ [][ lastOp' = "pause"
           => /\ hooks' = hooks
              /\ feedItems' = feedItems
              /\ dashVars' = dashVars
              /\ stats' = stats ]_vars

\* a frame of two events arrived while paused on a feed that had admitted
\* one event before
C17_Witness ==
    /\ isPaused
    /\ lastOp = "frame"
    /\ fx.dropped = 2
    /\ page = "live"
    /\ Len(feedItems) = 1
    /\ hooks[ut].status = "connected"

(***************************************************************************)
(* C18: on the live page with sound enabled and the feed not paused, a     *)
(* frame triggers one sound cue per event handed to addFeedItem, admitted  *)
(* or not; the buffer is the one the admission decisions alone give and    *)
(* the hooks are as they were, also when the audio fails.                  *)
(***************************************************************************)
C18_SoundCuePerEvent ==
    [][ (page = "live" /\ soundEnabled /\ ~isPaused /\ lastOp' = "frame")
        => /\ fx'.cues = Len(fx'.items)
           /\ feedItems' = AddAll(feedItems, fx'.items)
           /\ hooks' = hooks ]_vars

\* one frame carrying the same transfer twice, the audio failing: two cues,
\* one entry
C18_Witness ==
    /\ page = "live"
    /\ soundEnabled
    /\ fx.cues = 2
    /\ fx.audio = "failed"
    /\ fx.items[1] = fx.items[2]
    /\ Len(feedItems) = 1

C20_ClearForgetsSeenKeys ==
    [][ ( /\ page = "dashboard"
          /\ lastOp' = "add"
          /\ lastItem'.type = "coordinated"
          /\ recentCoordinated = <<>> )
        => recentCoordinated' = <<lastItem'>> ]_vars

(***************************************************************************)
(* C26: in each hook, at every state: status connected implies that the    *)
(* hook's one connection is open and no reconnect timeout is pending; a    *)
(* pending timeout implies that no connection is live; there is never a    *)
(* second live connection beside the one the ref holds and never more than *)
(* one pending timeout.                                                    *)
(***************************************************************************)
C26_SingleConnection ==
    /\ hooks[ut].status = "connected"
        => /\ hooks[ut].es = "open"
           /\ hooks[ut].timers = 0
           /\ ~hooks[ut].timerRef
    /\ hooks[ut].timers > 0
        => /\ ~Live(hooks[ut].es)
           /\ hooks[ut].timerRef
    /\ ~hooks[ut].orphan
    /\ hooks[ut].timers <= 1

\* reconnect() called on a connected hook that had failed before
C26_Witness ==
    /\ lastOp = "connect"
    /\ pre.es = "open"
    /\ failures > 0
    /\ hooks[ut].es = "connecting"
    /\ ~hooks[ut].orphan

(***************************************************************************)
(* C27: on the dashboard, at every state, no two entries of the            *)
(* coordinated mini-feed have the same dedup key and the key of every      *)
(* buffered entry is in the dedup-key memory.                              *)
(***************************************************************************)
C27_BufferKeysRemembered ==
    page = "dashboard"
    => /\ \A i, j \in 1..Len(recentCoordinated) :
            i < j => LiveTradeKey(recentCoordinated[i])
                        # LiveTradeKey(recentCoordinated[j])
       /\ \A i \in 1..Len(recentCoordinated) :
            LiveTradeKey(recentCoordinated[i]) \in Range(seenCoordinated)

(***************************************************************************)
(* The REST side.  The stream hooks stay as constructed; each of the       *)
(* specifications below exercises one record of the REST side.             *)
(***************************************************************************)
StreamIdle ==
    /\ ut = "all"
    /\ hooks = [k \in HookKinds |-> NewHook]
    /\ opts = [k \in HookKinds |->
                 [autoReconnect |-> TRUE, maxReconnectAttempts |-> 0]]
    /\ pre = NewHook
    /\ consecErrors = 0
    /\ failures = 0
    /\ page = "rest"
    /\ IdleRest

streamVars == <<hooks, opts, ut, pre, consecErrors, failures, page, liveVars,
                dashVars, isPaused, arrivals, lastFrom, domain, lastItem,
                deliveryVars>>

(***************************************************************************)
(* The API client.                                                         *)
(*   pathname             : window.location.pathname                       *)
(*   isRedirectingToLogin : the module-level flag                          *)
(*   requests             : per request, the state of its promise and the  *)
(*                          HTTP status of its response (0: none yet)      *)
(*   signOuts             : calls of signOut since the page was loaded     *)
(*   redirect             : who assigned the login URL to the location     *)
(*   session              : the NextAuth session                           *)
(*   loads                : full page loads so far                         *)
(*   last                 : history, the request the last step was about   *)
(***************************************************************************)
MaxRequests == 3
MaxPageLoads == 2

LOGIN_PATH == "/login"
HOME_PATH == "/"
UNAUTHORIZED == 401
ErrorStatuses == {UNAUTHORIZED, 403, 500}

Requests == 1..MaxRequests
NoRequest == [state |-> "none", status |-> 0]

\* the module as evaluated by a page load
NewClient(path, sess, n) ==
    [used |-> TRUE,
     pathname |-> path,
     isRedirectingToLogin |-> FALSE,
     requests |-> [id \in Requests |-> NoRequest],
     signOuts |-> 0,
     redirect |-> "none",
     session |-> sess,
     loads |-> n,
     last |-> [id |-> 0, status |-> 0]]

\* (response) => response
InterceptResponse(c, id) ==
    [c EXCEPT !.requests[id] = [state |-> "resolved", status |-> 200],
              !.last = [id |-> id, status |-> 200]]

InterceptErrorNoFlag(c, id, status) ==
    IF status = UNAUTHORIZED /\ c.pathname # LOGIN_PATH
    THEN [c EXCEPT !.isRedirectingToLogin = TRUE,
                   !.signOuts = @ + 1,
                   !.requests[id] = [state |-> "signingOut", status |-> status],
                   !.last = [id |-> id, status |-> status]]
    ELSE [c EXCEPT !.requests[id] = [state |-> "rejected", status |-> status],
                   !.last = [id |-> id, status |-> status]]

\* async (error) => { ... }: up to the await of signOut, or, when the
\* teardown is not started, up to return Promise.reject(error)
InterceptError(c, id, status) ==
    IF /\ status = UNAUTHORIZED
       /\ c.pathname # LOGIN_PATH
       /\ ~c.isRedirectingToLogin
    THEN [c EXCEPT !.isRedirectingToLogin = TRUE,
                   !.signOuts = @ + 1,
                   !.requests[id] = [state |-> "signingOut", status |-> status],
                   !.last = [id |-> id, status |-> status]]
    ELSE [c EXCEPT !.requests[id] = [state |-> "rejected", status |-> status],
                   !.last = [id |-> id, status |-> status]]

SignOutSettledNoFallback(c, id, ok) ==
    [c EXCEPT !.session = IF ok THEN "cleared" ELSE @,
              !.redirect = IF ok THEN "signOut" ELSE @,
              !.requests[id].state = "rejected",
              !.last = [id |-> id, status |-> c.requests[id].status]]

\* the rest of the interceptor: signOut clears the session and assigns the
\* callback URL to the location, or throws and the catch assigns the URL;
\* then return Promise.reject(error)
SignOutSettled(c, id, ok) ==
    [c EXCEPT !.session = IF ok THEN "cleared" ELSE @,
              !.redirect = IF ok THEN "signOut" ELSE "manual",
              !.requests[id].state = "rejected",
              !.last = [id |-> id, status |-> c.requests[id].status]]

InitClient ==
    /\ StreamIdle
    /\ lastOp = "init"
    /\ \E path \in {LOGIN_PATH, HOME_PATH} :
          client = NewClient(path, "valid", 1)
    /\ walletsPage = NoRest
    /\ dataHook = NoRest

ClientFrame == <<streamVars, walletsPage, dataHook>>

\* apiClient.get / put / post / delete
ClientSend ==
    /\ \E id \in Requests :
        /\ client.requests[id].state = "none"
        /\ client' = [client EXCEPT !.requests[id].state = "sent",
                                    !.last = [id |-> id, status |-> 0]]
    /\ lastOp' = "send"
    /\ UNCHANGED ClientFrame

\* a 2xx response arrives
ClientResponse ==
    /\ \E id \in Requests :
        /\ client.requests[id].state = "sent"
        /\ client' = InterceptResponse(client, id)
    /\ lastOp' = "response"
    /\ UNCHANGED ClientFrame

\* an error response arrives
ClientError ==
    /\ \E id \in Requests, status \in ErrorStatuses :
        /\ client.requests[id].state = "sent"
        /\ client' = InterceptError(client, id, status)
    /\ lastOp' = "error"
    /\ UNCHANGED ClientFrame

\* the awaited signOut resolves or throws
ClientSignOutSettles ==
    /\ \E id \in Requests, ok \in BOOLEAN :
        /\ client.requests[id].state = "signingOut"
        /\ client' = SignOutSettled(client, id, ok)
    /\ lastOp' = "settled"
    /\ UNCHANGED ClientFrame

\* the navigation started by the assignment to the location completes: the
\* page is unloaded with its pending promises, the login page is loaded and
\* the module is evaluated again
ClientPageLoad ==
    /\ client.redirect # "none"
    /\ client.loads < MaxPageLoads
    /\ client' = NewClient(LOGIN_PATH, client.session, client.loads + 1)
    /\ lastOp' = "load"
    /\ UNCHANGED ClientFrame

\* client-side navigation: router.push("/") after a sign-in on the login
\* page, or the sidebar's link to the login page
ClientRouterPush ==
    /\ client.redirect = "none"
    /\ client' = IF client.pathname = LOGIN_PATH
                 THEN [client EXCEPT !.pathname = HOME_PATH,
                                     !.session = "valid",
                                     !.last = [id |-> 0, status |-> 0]]
                 ELSE [client EXCEPT !.pathname = LOGIN_PATH,
                                     !.last = [id |-> 0, status |-> 0]]
    /\ lastOp' = "push"
    /\ UNCHANGED ClientFrame

NextClient ==
    \/ ClientSend
    \/ ClientResponse
    \/ ClientError
    \/ ClientSignOutSettles
    \/ ClientPageLoad
    \/ ClientRouterPush

SpecClient == InitClient /\ [][NextClient]_vars

\* the last step was the interceptor receiving a 401 response
Received401 == lastOp' = "error" /\ client'.last.status = UNAUTHORIZED

C28_TeardownAtMostOnce ==
    /\ [](client.signOuts <= 1)
    /\ [][client'.signOuts > client.signOuts /\ client'.loads = client.loads
            => client.pathname # LOGIN_PATH]_vars
    /\ [](\A id \in Requests :
            client.requests[id].status = UNAUTHORIZED
                => \/ client.requests[id].state = "rejected"
                   \/ /\ client.requests[id].state = "signingOut"
                      /\ client.isRedirectingToLogin)
    /\ [][\A id \in Requests :
            client.requests[id].state = "signingOut" /\ client'.loads = client.loads
                => client'.requests[id].state \in {"signingOut", "rejected"}]_vars

\* every request received a 401 while none had settled: one teardown
C28_Witness ==
    /\ client.signOuts = 1
    /\ client.redirect # "none"
    /\ \A id \in Requests :
        client.requests[id] = [state |-> "rejected", status |-> UNAUTHORIZED]

(***************************************************************************)
(* Address strings.  A string is described by what the format check looks  *)
(* at: its length without surrounding whitespace, whether all of those     *)
(* characters are in the base58 alphabet, and whether whitespace surrounds *)
(* them; name tells the sample strings apart.  The samples are two valid   *)
(* addresses, of the shortest and of the longest length, and strings that  *)
(* miss the format in each way.                                            *)
(***************************************************************************)
ADDRESS_MIN_LENGTH == 32
ADDRESS_MAX_LENGTH == 44
MAX_WALLETS == 2
MaxTextEntries == 2

Address(n) ==
    [name |-> n,
     length |-> IF n = 1 THEN ADDRESS_MIN_LENGTH ELSE ADDRESS_MAX_LENGTH,
     base58 |-> TRUE,
     padded |-> FALSE]

AllWallets == <<Address(1), Address(2)>>

Addresses == Range(AllWallets)

Padded(a) == [a EXCEPT !.padded = TRUE]

TooShort == [Address(0) EXCEPT !.length = ADDRESS_MIN_LENGTH - 1]
TooLong == [Address(0) EXCEPT !.length = ADDRESS_MAX_LENGTH + 1]
NotBase58 == [Address(0) EXCEPT !.base58 = FALSE]
EmptyString == [Address(0) EXCEPT !.length = 0]
Blank == Padded(EmptyString)

\* what a user may type into an address field
RawEntries ==
    Addresses \cup {Padded(Address(1)), TooShort, TooLong, NotBase58,
                    Padded(NotBase58), EmptyString, Blank}

\* the pieces between the separators of a pasted text or an imported file
TextEntries == Addresses \cup {Padded(NotBase58), Blank}

Texts == UNION {[1..n -> TextEntries] : n \in 1..MaxTextEntries}

\* String.prototype.trim
Trim(s) == [s EXCEPT !.padded = FALSE]

\* /^[1-9A-HJ-NP-Za-km-z]{32,44}$/.test(s)
Base58Regex(s) ==
    /\ ~s.padded
    /\ s.base58
    /\ s.length >= ADDRESS_MIN_LENGTH
    /\ s.length <= ADDRESS_MAX_LENGTH

IsValidWalletAddressAnyLength(address) ==
    ~Trim(address).padded /\ Trim(address).base58

IsValidWalletAddress(address) == Base58Regex(Trim(address))

IsValidTokenAddress(address) == Base58Regex(address)

NonEmpty(s) == s.length > 0 \/ s.padded

\* text.split(/[\n,]/).map(trim).filter(length > 0)
ParseWalletAddresses(text) ==
    SelectSeq([i \in 1..Len(text) |-> Trim(text[i])], NonEmpty)

IsInvalidWallet(s) == NonEmpty(Trim(s)) /\ ~IsValidWalletAddress(Trim(s))

IsValidWallet(s) == NonEmpty(Trim(s)) /\ IsValidWalletAddress(Trim(s))

ValidateWallets(ws) ==
    LET trimmed == [i \in 1..Len(ws) |-> Trim(ws[i])]
    IN  [valid |-> SelectSeq(trimmed, IsValidWallet),
         invalid |-> SelectSeq(trimmed, IsInvalidWallet)]

\* valid.filter((w) => !localWallets.includes(w))
NotIncluded(local, ws) ==
    LET Fresh(w) == w \notin Range(local) IN SelectSeq(ws, Fresh)

\* handleAddWallet: the list it passes to setLocalWallets, or the list as
\* it is after one of the early returns
HandleAddWallet(local, newWallet) ==
    LET trimmed == Trim(newWallet)
    IN  IF ~NonEmpty(trimmed) THEN local
        ELSE IF ~IsValidWalletAddress(trimmed) THEN local
        ELSE IF trimmed \in Range(local) THEN local
        ELSE IF Len(local) >= MAX_WALLETS THEN local
        ELSE Append(local, trimmed)

\* the tail of handleBulkAdd and of handleImport's onload
AddNewWalletsUncapped(local, newWallets) == local \o newWallets

AddNewWallets(local, newWallets) ==
    IF Len(local) + Len(newWallets) > MAX_WALLETS
    THEN local \o Take(newWallets, MAX_WALLETS - Len(local))
    ELSE local \o newWallets

\* handleBulkAdd
HandleBulkAdd(local, text) ==
    LET parsed == ParseWalletAddresses(text)
        valid == ValidateWallets(parsed).valid
        newWallets == NotIncluded(local, valid)
    IN  IF Len(parsed) = 0 THEN local
        ELSE IF Len(valid) = 0 THEN local
        ELSE IF Len(newWallets) = 0 THEN local
        ELSE AddNewWallets(local, newWallets)

\* handleImport: reader.onload
HandleImport(local, text) ==
    LET parsed == ParseWalletAddresses(text)
        valid == ValidateWallets(parsed).valid
        newWallets == NotIncluded(local, valid)
    IN  IF Len(valid) = 0 THEN local
        ELSE IF Len(newWallets) = 0 THEN local
        ELSE AddNewWallets(local, newWallets)

\* handleRemoveWallet, handleRemoveSelected
RemoveWallets(local, selected) ==
    LET Kept(w) == w \notin selected IN SelectSeq(local, Kept)

RECURSIVE CountOf(_, _)
CountOf(q, x) ==
    IF q = <<>> THEN 0
    ELSE (IF Head(q) = x THEN 1 ELSE 0) + CountOf(Tail(q), x)

\* JSON.stringify([...localWallets].sort()) !== JSON.stringify([...wallets].sort())
HasChanges(local, fetched) ==
    \E w \in Range(local) \cup Range(fetched) :
        CountOf(local, w) # CountOf(fetched, w)

(***************************************************************************)
(* Forms specification: the wallets page, after the fetch of its mount     *)
(* effect, and the exclude-token form of the config page.                  *)
(*   wallets      : useWallets' list, as the server returned it            *)
(*   localWallets : the page's editable list                               *)
(*   last         : history of the last step: whether the entry typed     *)
(*                  matches the address format, whether a text held        *)
(*                  invalid entries, whether it offered more new wallets   *)
(*                  than there was room for, whether a request was sent,   *)
(*                  and the token address the request carried             *)
(***************************************************************************)
NoLast ==
    [valid |-> TRUE, skipped |-> FALSE, capped |-> FALSE, sent |-> FALSE,
     posted |-> EmptyString]

InitForms ==
    /\ StreamIdle
    /\ lastOp = "init"
    /\ \E n \in 0..Len(AllWallets) :
          walletsPage = [used |-> TRUE,
                         wallets |-> Take(AllWallets, n),
                         localWallets |-> Take(AllWallets, n),
                         last |-> NoLast]
    /\ client = NoRest
    /\ dataHook = NoRest

FormsFrame == <<streamVars, client, dataHook>>

\* Refresh: fetchWallets and its response; the effect on [wallets] copies
\* the list
FetchWallets ==
    /\ walletsPage' = [walletsPage EXCEPT !.localWallets = walletsPage.wallets,
                                          !.last = [NoLast EXCEPT !.sent = TRUE]]
    /\ lastOp' = "fetch"
    /\ UNCHANGED FormsFrame

AddWallet ==
    /\ Len(walletsPage.localWallets) < MAX_WALLETS
    /\ \E newWallet \in RawEntries :
        walletsPage' =
            [walletsPage EXCEPT
                !.localWallets = HandleAddWallet(@, newWallet),
                !.last = [NoLast EXCEPT !.valid = Base58Regex(Trim(newWallet))]]
    /\ lastOp' = "add"
    /\ UNCHANGED FormsFrame

\* what the history keeps of a pasted text or an imported file
TextHistory(local, text) ==
    LET v == ValidateWallets(ParseWalletAddresses(text))
    IN  [NoLast EXCEPT
            !.skipped = Len(v.invalid) > 0,
            !.capped = Len(local) + Len(NotIncluded(local, v.valid))
                            > MAX_WALLETS]

BulkAdd ==
    /\ \E text \in Texts :
        walletsPage' =
            [walletsPage EXCEPT
                !.localWallets = HandleBulkAdd(@, text),
                !.last = TextHistory(walletsPage.localWallets, text)]
    /\ lastOp' = "bulk"
    /\ UNCHANGED FormsFrame

Import ==
    /\ Len(walletsPage.localWallets) < MAX_WALLETS
    /\ \E text \in Texts :
        walletsPage' =
            [walletsPage EXCEPT
                !.localWallets = HandleImport(@, text),
                !.last = TextHistory(walletsPage.localWallets, text)]
    /\ lastOp' = "import"
    /\ UNCHANGED FormsFrame

RemoveWallet ==
    /\ \E w \in Range(walletsPage.localWallets) :
        walletsPage' = [walletsPage EXCEPT
                            !.localWallets = RemoveWallets(@, {w}),
                            !.last = NoLast]
    /\ lastOp' = "remove"
    /\ UNCHANGED FormsFrame

RemoveSelected ==
    /\ \E selected \in SUBSET Range(walletsPage.localWallets) :
        /\ selected # {}
        /\ walletsPage' = [walletsPage EXCEPT
                                !.localWallets = RemoveWallets(@, selected),
                                !.last = NoLast]
    /\ lastOp' = "removeSelected"
    /\ UNCHANGED FormsFrame

Reset ==
    /\ HasChanges(walletsPage.localWallets, walletsPage.wallets)
    /\ walletsPage' = [walletsPage EXCEPT
                            !.localWallets = walletsPage.wallets,
                            !.last = NoLast]
    /\ lastOp' = "reset"
    /\ UNCHANGED FormsFrame

\* handleSave with the outcome of the PUT: on success the hook stores the
\* returned list and the effect on [wallets] copies it
Save ==
    /\ HasChanges(walletsPage.localWallets, walletsPage.wallets)
    /\ \E ok \in BOOLEAN :
        LET local == walletsPage.localWallets IN
        walletsPage' =
            IF Len(local) = 0
            THEN [walletsPage EXCEPT !.last = NoLast]
            ELSE IF ok
            THEN [walletsPage EXCEPT
                    !.wallets = local,
                    !.last = [NoLast EXCEPT !.sent = TRUE]]
            ELSE [walletsPage EXCEPT
                    !.last = [NoLast EXCEPT !.sent = TRUE]]
    /\ lastOp' = "save"
    /\ UNCHANGED FormsFrame

\* config page, handleAddToken
AddToken ==
    /\ \E newToken \in RawEntries :
        walletsPage' =
            IF NonEmpty(Trim(newToken)) /\ IsValidTokenAddress(Trim(newToken))
            THEN [walletsPage EXCEPT
                    !.last = [NoLast EXCEPT !.sent = TRUE,
                                            !.posted = Trim(newToken)]]
            ELSE [walletsPage EXCEPT
                    !.last = [NoLast EXCEPT
                                !.valid = Base58Regex(Trim(newToken))]]
    /\ lastOp' = "token"
    /\ UNCHANGED FormsFrame

NextForms ==
    \/ FetchWallets
    \/ AddWallet
    \/ BulkAdd
    \/ Import
    \/ RemoveWallet
    \/ RemoveSelected
    \/ Reset
    \/ Save
    \/ AddToken

SpecForms == InitForms /\ [][NextForms]_vars

AllFormatValid(q) == \A i \in 1..Len(q) : Base58Regex(q[i])

\* C22: every entry of the local wallet list passes the format check, so
\* the list Save sends holds only format-valid addresses; the address of an
\* add-excluded-token request passes the check; a typed entry that fails
\* the check changes neither the local list nor anything at the server, and
\* a pasted text or an imported file changes nothing at the server.
C22_OnlyValidAddressesSent ==
    /\ [](AllFormatValid(walletsPage.localWallets))
    /\ [](AllFormatValid(walletsPage.wallets))
    /\ [](lastOp = "token" /\ walletsPage.last.sent
            => Base58Regex(walletsPage.last.posted))
    /\ [][(lastOp' \in {"add", "token"} /\ ~walletsPage'.last.valid)
            => /\ walletsPage'.localWallets = walletsPage.localWallets
               /\ walletsPage'.wallets = walletsPage.wallets
               /\ ~walletsPage'.last.sent]_vars
    /\ [][lastOp' \in {"add", "bulk", "import"}
            => /\ walletsPage'.wallets = walletsPage.wallets
               /\ ~walletsPage'.last.sent]_vars

\* a pasted text with a valid and an invalid entry: the valid one was added
C22_Witness ==
    /\ lastOp = "bulk"
    /\ walletsPage.last.skipped
    /\ walletsPage.localWallets # walletsPage.wallets
    /\ walletsPage.localWallets # <<>>

\* C24: the local wallet list never has more than MAX_WALLETS entries, and
\* a Save request carries between 1 and MAX_WALLETS wallets.
C24_AtMostMaxWallets ==
    /\ [](Len(walletsPage.localWallets) <= MAX_WALLETS)
    /\ [](Len(walletsPage.wallets) <= MAX_WALLETS)
    /\ [][lastOp' = "save"
            => walletsPage'.last.sent
                = (Len(walletsPage.localWallets) \in 1..MAX_WALLETS)]_vars

\* a bulk add offered more new wallets than there was room for
C24_Witness ==
    /\ lastOp = "bulk"
    /\ walletsPage.last.capped
    /\ Len(walletsPage.localWallets) = MAX_WALLETS

\* C30: the local wallet list never contains an address twice.
C30_NoDuplicateWallets ==
    \A i, j \in 1..Len(walletsPage.localWallets) :
        i # j => walletsPage.localWallets[i] # walletsPage.localWallets[j]

(***************************************************************************)
(* JavaScript values the transfers fetch is called with.                   *)
(***************************************************************************)
Undefined == [type |-> "undefined"]
Null == [type |-> "null"]
Num(n) == [type |-> "number", value |-> n]
Str(x) == [type |-> "string", value |-> x]
Obj(l, s, t) == [type |-> "object", limit |-> l, startTime |-> s, endTime |-> t]

DEFAULT_LIMIT == 50

\* the values of the transfers page's limit selector
LimitChoices == {50, 100, 250, 500}

\* fetchTransfers(parseInt(limit)), fetchTransfers({startTime, endTime}),
\* fetchTransfers({limit}), fetchTransfers()
FetchArguments ==
    {Undefined}
        \cup {Num(n) : n \in LimitChoices}
        \cup {Obj(l, s, t) : l \in {Undefined, Num(250)},
                             s \in {Undefined, Str("24h ago")},
                             t \in {Undefined, Str("now")}}

\* a property read from the argument: only an object has own properties
Property(options, name) ==
    IF options.type = "object" THEN options[name] ELSE Undefined

Truthy(v) == v # Undefined /\ v # Str("")

\* getTransfers: the query parameters of the request (Undefined: not set)
GetTransfers(options) ==
    LET limit == IF Property(options, "limit") = Undefined
                 THEN Num(DEFAULT_LIMIT) ELSE Property(options, "limit")
        startTime == Property(options, "startTime")
        endTime == Property(options, "endTime")
    IN  [limit |-> IF ~Truthy(startTime) /\ ~Truthy(endTime)
                   THEN limit ELSE Undefined,
         startTime |-> IF Truthy(startTime) THEN startTime ELSE Undefined,
         endTime |-> IF Truthy(endTime) THEN endTime ELSE Undefined]

NoParams == [limit |-> Undefined, startTime |-> Undefined, endTime |-> Undefined]

(***************************************************************************)
(* A REST data hook (useTransfers, useCoordinatedTrades, useStats,         *)
(* useConfig, useWallets): a fetch under the loading flag and, where the   *)
(* hook has one, a save under the saving flag, both storing the response.  *)
(*   data    : the held data, named by the call whose response it is       *)
(*             (0: the initial value)                                      *)
(*   calls   : per call, in the order of issue, its kind and state         *)
(*   issued  : the number of calls made                                    *)
(*   last    : history of the last step: the call, the argument and the    *)
(*             query parameters of a fetch, the error the request failed   *)
(*             with and the error the hook's promise was rejected with     *)
(***************************************************************************)
MaxCalls == 3

Calls == 1..MaxCalls

CallKinds == {"fetch", "save"}

\* what a request may fail with: an Error, or a value that is not one
Errors == {[type |-> "Error", message |-> "Network Error"], Str("aborted")}

Fallback(kind) ==
    IF kind = "fetch" THEN "Failed to fetch transfers"
    ELSE "Failed to update configuration"

\* err instanceof Error ? err.message : fallback
Message(err, kind) ==
    IF err.type = "Error" THEN err.message ELSE Fallback(kind)

NoCall == [state |-> "none", kind |-> "fetch"]

NoHistory ==
    [id |-> 0, arg |-> Undefined, params |-> NoParams, err |-> Undefined,
     thrown |-> Undefined]

NewDataHook ==
    [used |-> TRUE,
     data |-> 0,
     loading |-> FALSE,
     saving |-> FALSE,
     error |-> Null,
     calls |-> [id \in Calls |-> NoCall],
     issued |-> 0,
     last |-> NoHistory]

\* setLoading(true) or setSaving(true); setError(null); the request is sent
OnCall(h, kind, arg) ==
    [h EXCEPT !.loading = IF kind = "fetch" THEN TRUE ELSE @,
              !.saving = IF kind = "save" THEN TRUE ELSE @,
              !.error = Null,
              !.issued = @ + 1,
              !.calls[h.issued + 1] = [state |-> "pending", kind |-> kind],
              !.last = [NoHistory EXCEPT
                            !.id = h.issued + 1,
                            !.arg = arg,
                            !.params = IF kind = "fetch" THEN GetTransfers(arg)
                                       ELSE NoParams]]

\* try: setData(data); return data; finally: the flag is cleared
OnSuccess(h, id) ==
    [h EXCEPT !.data = id,
              !.loading = IF h.calls[id].kind = "fetch" THEN FALSE ELSE @,
              !.saving = IF h.calls[id].kind = "save" THEN FALSE ELSE @,
              !.calls[id].state = "done",
              !.last = [NoHistory EXCEPT !.id = id]]

OnFailureClearsData(h, id, err) ==
    [h EXCEPT !.data = 0,
              !.error = Str(Message(err, h.calls[id].kind)),
              !.loading = IF h.calls[id].kind = "fetch" THEN FALSE ELSE @,
              !.saving = IF h.calls[id].kind = "save" THEN FALSE ELSE @,
              !.calls[id].state = "failed",
              !.last = [NoHistory EXCEPT !.id = id, !.err = err,
                                         !.thrown = err]]

\* catch: setError(message); throw err; finally: the flag is cleared
OnFailure(h, id, err) ==
    [h EXCEPT !.error = Str(Message(err, h.calls[id].kind)),
              !.loading = IF h.calls[id].kind = "fetch" THEN FALSE ELSE @,
              !.saving = IF h.calls[id].kind = "save" THEN FALSE ELSE @,
              !.calls[id].state = "failed",
              !.last = [NoHistory EXCEPT !.id = id, !.err = err,
                                         !.thrown = err]]

InitDataHook ==
    /\ StreamIdle
    /\ lastOp = "init"
    /\ dataHook = NewDataHook
    /\ client = NoRest
    /\ walletsPage = NoRest

DataHookFrame == <<streamVars, client, walletsPage>>

\* the page calls the hook's fetch
HookFetch ==
    /\ dataHook.issued < MaxCalls
    /\ \E arg \in FetchArguments :
        dataHook' = OnCall(dataHook, "fetch", arg)
    /\ lastOp' = "call"
    /\ UNCHANGED DataHookFrame

\* the page calls the hook's save
HookSave ==
    /\ dataHook.issued < MaxCalls
    /\ dataHook' = OnCall(dataHook, "save", Undefined)
    /\ lastOp' = "call"
    /\ UNCHANGED DataHookFrame

\* the response of a pending call arrives
HookResolve ==
    /\ \E id \in Calls :
        /\ dataHook.calls[id].state = "pending"
        /\ dataHook' = OnSuccess(dataHook, id)
    /\ lastOp' = "resolve"
    /\ UNCHANGED DataHookFrame

\* a pending call fails
HookReject ==
    /\ \E id \in Calls, err \in Errors :
        /\ dataHook.calls[id].state = "pending"
        /\ dataHook' = OnFailure(dataHook, id, err)
    /\ lastOp' = "reject"
    /\ UNCHANGED DataHookFrame

NextDataHook ==
    \/ HookFetch
    \/ HookSave
    \/ HookResolve
    \/ HookReject

SpecDataHook == InitDataHook /\ [][NextDataHook]_vars

\* the limit the caller of a fetch selected, DEFAULT_LIMIT if it gave none
CallerLimit(arg) ==
    IF arg.type = "number" THEN arg
    ELSE IF arg.type = "object" /\ arg.limit # Undefined THEN arg.limit
    ELSE Num(DEFAULT_LIMIT)

HasTimeRange(arg) ==
    arg.type = "object" /\ (arg.startTime # Undefined \/ arg.endTime # Undefined)

IsFetchCall ==
    /\ lastOp = "call"
    /\ dataHook.calls[dataHook.last.id].kind = "fetch"

\* C23: a transfers fetch with no time range sends exactly the limit its
\* caller selected (DEFAULT_LIMIT when it gave none) and no time bound; a
\* fetch with a startTime or an endTime sends those bounds and no limit.
C23_LimitOrTimeRange ==
    IsFetchCall
    => LET arg == dataHook.last.arg
           params == dataHook.last.params
       IN  IF HasTimeRange(arg)
           THEN /\ params.limit = Undefined
                /\ params.startTime = arg.startTime
                /\ params.endTime = arg.endTime
           ELSE /\ params.limit = CallerLimit(arg)
                /\ params.startTime = Undefined
                /\ params.endTime = Undefined

\* the flag a call of this kind runs under
FlagOf(h, id) == IF h.calls[id].kind = "fetch" THEN h.loading ELSE h.saving

\* C25: when the request of a hook's call fails, the hook's promise is
\* rejected with the error the request failed with, the error state holds
\* a message, the held data is what it was, and the call's flag is false.
C25_FailureKeepsData ==
    [][lastOp' = "reject"
        => /\ dataHook'.last.thrown = dataHook'.last.err
           /\ dataHook'.last.err \in Errors
           /\ dataHook'.error
                = Str(Message(dataHook'.last.err,
                              dataHook.calls[dataHook'.last.id].kind))
           /\ dataHook'.error # Null
           /\ dataHook'.data = dataHook.data
           /\ ~FlagOf(dataHook', dataHook'.last.id)]_vars

\* a call failed while data of an earlier call was held
C25_Witness ==
    /\ lastOp = "reject"
    /\ dataHook.data # 0
    /\ dataHook.error # Null
    /\ dataHook.last.thrown \in Errors

\* C29: once no call is pending, the held data is the response of the
\* latest call that succeeded; and while a call is pending its flag is
\* true.
C29_LatestCallWins ==
    /\ (\A id \in Calls : dataHook.calls[id].state # "pending")
        => \A id \in Calls :
            dataHook.calls[id].state = "done" => dataHook.data >= id
    /\ \A id \in Calls :
        dataHook.calls[id].state = "pending" => FlagOf(dataHook, id)


====
